---- MODULE Spec2Model ----
(***************************************************************************)
(* Luckydex: unique draw from a pool sheet and best-effort recording in    *)
(* the winners sheet (src/chalicelib/sheets.py, src/app.py).               *)
(*                                                                         *)
(* Cell values are Python values as gspread's get_all_records returns      *)
(* them: an int, a str (a sequence of one-character strings) or None (key  *)
(* absent from the row dict).                                              *)
(***************************************************************************)
EXTENDS Integers, Sequences, FiniteSets, TLC

VARIABLES client, spreadsheet, pool, sheet, now, last, resp, drawn, calls

vars == <<client, spreadsheet, pool, sheet, now, last, resp, drawn, calls>>

(* ------------------------------ bounds --------------------------------- *)
MaxPool == 2
MaxLog == 2
MaxClock == 1
MaxFilterPool == 3

(* --------------------------- Python values ----------------------------- *)
IntV(n) == [k |-> "int", n |-> n, s |-> <<>>]
StrV(s) == [k |-> "str", n |-> 0, s |-> s]
None == [k |-> "none", n |-> 0, s |-> <<>>]
Empty == StrV(<<>>)

Digits == <<"0", "1", "2", "3", "4", "5", "6", "7", "8", "9">>

RECURSIVE StrNat(_)
StrNat(n) == IF n < 10 THEN <<Digits[n + 1]>>
             ELSE StrNat(n \div 10) \o <<Digits[(n % 10) + 1]>>

\* str(v)
PyStr(v) == IF v.k = "int" THEN StrNat(v.n)
            ELSE IF v.k = "str" THEN v.s
            ELSE <<"N", "o", "n", "e">>

RECURSIVE LStrip(_)
LStrip(s) == IF s # <<>> /\ Head(s) = " " THEN LStrip(Tail(s)) ELSE s

RECURSIVE RStrip(_)
RStrip(s) == IF s # <<>> /\ s[Len(s)] = " "
             THEN RStrip(SubSeq(s, 1, Len(s) - 1)) ELSE s

\* s.strip()
Strip(s) == RStrip(LStrip(s))

\* bool(v)
Truthy(v) == \/ v.k = "int" /\ v.n # 0
             \/ v.k = "str" /\ v.s # <<>>

\* a or b
PyOr(a, b) == IF Truthy(a) THEN a ELSE b

\* v != ''
NotEmptyStr(v) == ~(v.k = "str" /\ v.s = <<>>)

\* d.get(key, default) for a dict whose absent keys hold None
Get(v, default) == IF v.k = "none" THEN default ELSE v

IsDigit(c) == \E i \in 1..10 : Digits[i] = c
DigitVal(c) == (CHOOSE i \in 1..10 : Digits[i] = c) - 1
IsDigits(s) == s # <<>> /\ \A i \in 1..Len(s) : IsDigit(s[i])

RECURSIVE ToNat(_)
ToNat(s) == IF s = <<>> THEN 0
            ELSE 10 * ToNat(SubSeq(s, 1, Len(s) - 1)) + DigitVal(s[Len(s)])

\* gspread numericise of a cell returned by the API: int(value) succeeds on
\* a digit string with surrounding whitespace, everything else stays a str
Numericise(v) == IF v.k = "str" /\ IsDigits(Strip(v.s))
                 THEN IntV(ToNat(Strip(v.s))) ELSE v

(* ------------------------- string comparison --------------------------- *)
\* the characters in use, in code-point order
Alphabet == <<" ", ",", "0", "1", "2", "3", "4", "5", "6", "7", "8", "9",
              "N", "T", "a", "b", "e", "n", "o">>
Ord(c) == CHOOSE i \in 1..Len(Alphabet) : Alphabet[i] = c

\* s < t for Python str
RECURSIVE StrLess(_, _)
StrLess(s, t) == IF t = <<>> THEN FALSE
                 ELSE IF s = <<>> THEN TRUE
                 ELSE IF Head(s) = Head(t) THEN StrLess(Tail(s), Tail(t))
                 ELSE Ord(Head(s)) < Ord(Head(t))

\* a < b for two sort keys of the same type
KeyLess(a, b) == IF a.k = "int" THEN a.n < b.n ELSE StrLess(a.s, b.s)

(* ----------------------------- the sheets ------------------------------ *)
\* Header row of the winners sheet: the names of columns A, B and C
\* (D and E are name and description).
HeaderLower == [a |-> "timestamp", b |-> "id", c |-> "number"]
HeaderUpper == [a |-> "Timestamp", b |-> "ID", c |-> "Number"]
NoHeader == [a |-> "", b |-> "", c |-> ""]

NoSheet == [exists |-> FALSE, header |-> NoHeader, rows |-> <<>>]

\* one row of the winners sheet, by column
Cells(a, b, c, d, e) == [a |-> a, b |-> b, c |-> c, d |-> d, e |-> e]

\* worksheet.get_all_records() of the winners sheet: one dict per data row,
\* keyed by the header names, cell values numericised
LogRecord(h, r) ==
  [timestamp |-> IF h.a = "timestamp" THEN Numericise(r.a) ELSE None,
   Timestamp |-> IF h.a = "Timestamp" THEN Numericise(r.a) ELSE None,
   time      |-> IF h.a = "time" THEN Numericise(r.a) ELSE None,
   id        |-> IF h.b = "id" THEN Numericise(r.b) ELSE None,
   ID        |-> IF h.b = "ID" THEN Numericise(r.b) ELSE None,
   number    |-> IF h.c = "number" THEN Numericise(r.c) ELSE None,
   Number    |-> IF h.c = "Number" THEN Numericise(r.c) ELSE None,
   name        |-> IF h = NoHeader THEN None ELSE Numericise(r.d),
   description |-> IF h = NoHeader THEN None ELSE Numericise(r.e)]

LogRecords(sh) == [i \in 1..Len(sh.rows) |-> LogRecord(sh.header, sh.rows[i])]

\* get_timestamp(record) or ''
get_timestamp(r) ==
  PyOr(PyOr(PyOr(PyOr(r.timestamp, r.Timestamp), r.time), Empty), Empty)

\* list.sort(key, reverse=True) keeps equal keys in their original order:
\* x goes after every element whose key is not smaller than its own
RECURSIVE InsertDesc(_, _)
InsertDesc(x, sorted) ==
  IF sorted = <<>> THEN <<x>>
  ELSE IF KeyLess(get_timestamp(Head(sorted)), get_timestamp(x))
       THEN <<x>> \o sorted
       ELSE <<Head(sorted)>> \o InsertDesc(x, Tail(sorted))

RECURSIVE SortDesc(_)
SortDesc(recs) ==
  IF recs = <<>> THEN <<>>
  ELSE InsertDesc(recs[Len(recs)], SortDesc(SubSeq(recs, 1, Len(recs) - 1)))

\* comparing an int key with a str key raises TypeError
SortRaises(recs) ==
  \E i, j \in 1..Len(recs) :
     get_timestamp(recs[i]).k # get_timestamp(recs[j]).k

\* the records as read, left in sheet order
get_winners_unsorted(cl, sh, readFails) ==
  IF ~cl \/ readFails \/ ~sh.exists THEN <<>> ELSE LogRecords(sh)

\* SheetsClient.get_winners: every exception (sheet missing, read error,
\* sort error) is swallowed and yields the empty list
get_winners(cl, sh, readFails) ==
  IF ~cl THEN <<>>
  ELSE IF readFails \/ ~sh.exists THEN <<>>
  ELSE IF SortRaises(LogRecords(sh)) THEN <<>>
  ELSE SortDesc(LogRecords(sh))

\* the sheet resolved the way save_winner resolves it: created when missing
after_get_or_create(sh) ==
  IF sh.exists THEN sh ELSE [exists |-> TRUE, header |-> HeaderLower, rows |-> <<>>]

\* the winners sheet as get_winners leaves it: spreadsheet.worksheet(name)
\* and get_all_records only read
after_get_winners(sh) == sh

(* ----------------------- get_unique_random_entry ----------------------- *)
\* ids that already won: winner.get('id') or winner.get('ID'), kept when
\* not None and not '', as str(..).strip()
LogIds(winners) ==
  {Strip(PyStr(PyOr(winners[i].id, winners[i].ID))) :
     i \in {j \in 1..Len(winners) :
              /\ PyOr(winners[j].id, winners[j].ID).k # "none"
              /\ NotEmptyStr(PyOr(winners[j].id, winners[j].ID))}}

LogNumbers(winners) ==
  {Strip(PyStr(PyOr(winners[i].number, winners[i].Number))) :
     i \in {j \in 1..Len(winners) :
              /\ PyOr(winners[j].number, winners[j].Number).k # "none"
              /\ NotEmptyStr(PyOr(winners[j].number, winners[j].Number))}}

\* session exclusions: str(x).strip() for x in exclude if x and x != ''
SessionSet(exclude) ==
  {Strip(PyStr(exclude[i])) :
     i \in {j \in 1..Len(exclude) : Truthy(exclude[j]) /\ NotEmptyStr(exclude[j])}}

prior_ids(winners, exclude_ids) == LogIds(winners) \cup SessionSet(exclude_ids)
prior_numbers(winners, exclude_numbers) ==
  LogNumbers(winners) \cup SessionSet(exclude_numbers)

\* r.get('id', r.get('ID', None)) and its normal form (None when the value
\* is None or '')
candidate_id(r) == Get(r.id, Get(r.ID, None))
candidate_number(r) == Get(r.number, Get(r.Number, None))

NormOrNone(v) == IF v.k # "none" /\ NotEmptyStr(v) THEN StrV(Strip(PyStr(v))) ELSE None

id_won(r, pids) ==
  NormOrNone(candidate_id(r)).k # "none" /\ NormOrNone(candidate_id(r)).s \in pids
\* the number test left out: no number is ever taken as already won
number_never_won(r, pnums) == FALSE

number_won(r, pnums) ==
  /\ NormOrNone(candidate_number(r)).k # "none"
  /\ NormOrNone(candidate_number(r)).s \in pnums

IsEligible(r, pids, pnums) == ~id_won(r, pids) /\ ~number_won(r, pnums)

\* the eligible list, in pool order
RECURSIVE Eligible(_, _, _)
RECURSIVE EligiblePrepended(_, _, _)
\* each retained record put in front of the list instead of appended
EligiblePrepended(records, pids, pnums) ==
  IF records = <<>> THEN <<>>
  ELSE EligiblePrepended(Tail(records), pids, pnums)
       \o (IF IsEligible(Head(records), pids, pnums) THEN <<Head(records)>> ELSE <<>>)

Eligible(records, pids, pnums) ==
  IF records = <<>> THEN <<>>
  ELSE (IF IsEligible(Head(records), pids, pnums) THEN <<Head(records)>> ELSE <<>>)
       \o Eligible(Tail(records), pids, pnums)

\* the dict of the first eligible record, whichever record was chosen
DrawResultOfFirst(chosen, records, eligible) ==
  [id |-> Get(eligible[1].id, Get(eligible[1].ID, Empty)),
   number |-> Get(eligible[1].number, Get(eligible[1].Number, Empty)),
   name |-> Get(eligible[1].name, Get(eligible[1].Name, Empty)),
   description |-> Get(eligible[1].description, Get(eligible[1].Description, Empty)),
   total_entries |-> Len(records),
   eligible_entries |-> Len(eligible),
   mock |-> FALSE]

\* the dict returned for the chosen record
DrawResult(chosen, records, eligible) ==
  [id |-> Get(chosen.id, Get(chosen.ID, Empty)),
   number |-> Get(chosen.number, Get(chosen.Number, Empty)),
   name |-> Get(chosen.name, Get(chosen.Name, Empty)),
   description |-> Get(chosen.description, Get(chosen.Description, Empty)),
   total_entries |-> Len(records),
   eligible_entries |-> Len(eligible),
   mock |-> FALSE]

NoEntry == [id |-> None, number |-> None, name |-> None, description |-> None,
            total_entries |-> 0, eligible_entries |-> 0, mock |-> FALSE]

\* _get_mock_entry: the five built-in entries (name and description are
\* abbreviated to one letter; no operation reads them)
MockRow(i, n, nm, d) == [id |-> IntV(i), number |-> IntV(n), name |-> StrV(nm),
                         description |-> StrV(d)]
mock_data == <<MockRow(1, 777, <<"a">>, <<"a">>), MockRow(2, 888, <<"b">>, <<"b">>),
               MockRow(3, 333, <<"e">>, <<"e">>), MockRow(4, 999, <<"n">>, <<"n">>),
               MockRow(5, 111, <<"o">>, <<"o">>)>>

\* the selected mock row handed back as it is, without the two added keys
MockEntryPlain(i) ==
  [id |-> mock_data[i].id, number |-> mock_data[i].number,
   name |-> mock_data[i].name, description |-> mock_data[i].description,
   total_entries |-> 0, eligible_entries |-> 0, mock |-> FALSE]

MockEntry(i) ==
  [id |-> mock_data[i].id, number |-> mock_data[i].number,
   name |-> mock_data[i].name, description |-> mock_data[i].description,
   total_entries |-> Len(mock_data), eligible_entries |-> 0, mock |-> TRUE]

(* ------------------------------ save_winner ---------------------------- *)
\* existing_winners[-50:]
DupWindow == 50

Suffix(seq, n) == IF Len(seq) <= n THEN seq ELSE SubSeq(seq, Len(seq) - n + 1, Len(seq))

\* where an exception may be raised inside save_winner's try block: opening
\* the spreadsheet, looking the sheet up and creating it, appending the header
\* row, get_all_records ("read"), col_values or update ("write")
SaveFailures == {"none", "open", "lookup", "append_row", "read", "write"}

\* the worksheet save_winner works on after the lookup / creation step
Resolved(sh) == IF sh.exists THEN sh
                ELSE [exists |-> TRUE, header |-> HeaderLower, rows |-> <<>>]

\* the duplicate guard over the last DupWindow records
IsDuplicate(entry, existing) ==
  LET entry_id == Strip(PyStr(Get(entry.id, Empty)))
      entry_number == Strip(PyStr(Get(entry.number, Empty)))
      window == Suffix(existing, DupWindow)
  IN \E i \in 1..Len(window) :
        LET winner_id == Strip(PyStr(Get(window[i].id, Empty)))
            winner_number == Strip(PyStr(Get(window[i].number, Empty)))
        IN \/ entry_id # <<>> /\ winner_id # <<>> /\ entry_id = winner_id
           \/ /\ entry_number # <<>> /\ winner_number # <<>>
              /\ entry_number = winner_number

\* index of the last data row whose column A cell is not empty (0 if none)
LastStamped(rows) ==
  IF \E i \in 1..Len(rows) : rows[i].a # Empty
  THEN CHOOSE i \in 1..Len(rows) :
         rows[i].a # Empty /\ \A j \in (i + 1)..Len(rows) : rows[j].a = Empty
  ELSE 0

\* column A taken to hold the header cell only
ColALenHeader(sh) == 1

\* len(worksheet.col_values(1)): column A up to its last non-empty cell
ColALen(sh) == IF sh.header.a # "" \/ LastStamped(sh.rows) > 0
               THEN 1 + LastStamped(sh.rows) ELSE 0

\* col_a_values[0].lower()
LowerName(nm) == IF nm = "Timestamp" THEN "timestamp" ELSE nm

\* the row after the next one: leaves a gap below the last stamped row
next_row_skip(sh) == ColALen(sh) + 2

next_row(sh) ==
  LET n == ColALen(sh) + 1
  IN IF n = 2 /\ ColALen(sh) > 0 /\ LowerName(sh.header.a) \in {"time", "timestamp"}
     THEN 2
     ELSE IF n < 2 THEN 2 ELSE n

\* datetime.now(myt).strftime(...): a non-empty, non-numeric string that
\* orders as the clock does
TsStr(t) == StrV(<<"T", Digits[t + 1]>>)

row_data(entry, t) ==
  Cells(TsStr(t), Get(entry.id, Empty), Get(entry.number, Empty),
        Get(entry.name, Empty), Get(entry.description, Empty))

\* worksheet.update('A{n}:E{n}', [row]) on sheet row n = data row n-1; rows
\* skipped between the last row and row n stay blank
Blank == Cells(Empty, Empty, Empty, Empty, Empty)

\* an update that looks at the rows again and writes nothing when one of
\* them already holds the id or the number
UpdateIfAbsent(rows, n, row) ==
  IF \E i \in 1..Len(rows) : rows[i].b = row.b \/ rows[i].c = row.c THEN rows
  ELSE IF n - 1 <= Len(rows) THEN [rows EXCEPT ![n - 1] = row]
  ELSE rows \o [i \in 1..(n - 2 - Len(rows)) |-> Blank] \o <<row>>

Update(rows, n, row) ==
  IF n - 1 <= Len(rows) THEN [rows EXCEPT ![n - 1] = row]
  ELSE rows \o [i \in 1..(n - 2 - Len(rows)) |-> Blank] \o <<row>>

\* What save_winner hands back: the sheet it leaves, its return value,
\* whether its except clause caught an exception, whether one escaped.
Returns(sh, ret) == [sheet |-> sh, ret |-> ret, caught |-> FALSE, raised |-> FALSE]

\* the except clause left out: the exception reaches the caller
except_missing(sh) == [sheet |-> sh, ret |-> FALSE, caught |-> FALSE, raised |-> TRUE]

\* except Exception: print, return False
except_clause(sh) == [sheet |-> sh, ret |-> FALSE, caught |-> TRUE, raised |-> FALSE]

save_winner(cl, sh, entry, f, t) ==
  IF ~cl THEN Returns(sh, FALSE)
  ELSE IF f \in {"open", "lookup"} THEN except_clause(sh)
  ELSE IF f = "append_row"
       THEN except_clause([exists |-> TRUE, header |-> NoHeader, rows |-> <<>>])
  ELSE IF f = "read" THEN except_clause(Resolved(sh))
  ELSE IF IsDuplicate(entry, LogRecords(Resolved(sh))) THEN Returns(Resolved(sh), TRUE)
  ELSE IF f = "write" THEN except_clause(Resolved(sh))
  ELSE Returns([Resolved(sh) EXCEPT
                  !.rows = Update(@, next_row(Resolved(sh)), row_data(entry, t))],
               TRUE)

(* --------------------------- the /luckydex route ----------------------- *)
\* s.split(',')
RECURSIVE Split(_, _)
Split(s, cur) == IF s = <<>> THEN <<cur>>
                 ELSE IF Head(s) = "," THEN <<cur>> \o Split(Tail(s), <<>>)
                 ELSE Split(Tail(s), Append(cur, Head(s)))

RECURSIVE StripTokens(_)
StripTokens(toks) ==
  IF toks = <<>> THEN <<>>
  ELSE (IF Strip(Head(toks)) # <<>> THEN <<StrV(Strip(Head(toks)))>> ELSE <<>>)
       \o StripTokens(Tail(toks))

\* [x.strip() for x in param.split(',') if x.strip()], [] for an empty param
ParseList(param) == IF param = <<>> THEN <<>> ELSE StripTokens(Split(param, <<>>))

NoResp == [status |-> 0, success |-> FALSE, id |-> None, number |-> None,
           name |-> None, description |-> None, total_entries |-> 0,
           mock_data |-> FALSE, winner_saved |-> FALSE, message |-> "",
           error |-> "", winners |-> <<>>]

\* the 200 body built from the entry and save_winner's return value
Success(entry, saved) ==
  [NoResp EXCEPT !.status = 200, !.success = TRUE, !.id = entry.id,
                 !.number = entry.number, !.name = entry.name,
                 !.description = entry.description,
                 !.total_entries = entry.total_entries,
                 !.mock_data = entry.mock, !.winner_saved = saved]

\* except ValueError: 409
Conflict(err) ==
  [NoResp EXCEPT !.status = 409, !.error = err,
                 !.message = "No eligible entries remaining"]

\* except Exception: 500
Failure(err) ==
  [NoResp EXCEPT !.status = 500, !.error = err,
                 !.message = "Failed to draw number from spreadsheet"]

\* a handler that answers 500 when the winner was not saved
AfterSaveStrict(entry, sv) ==
  IF sv.raised \/ ~sv.ret THEN Failure("save") ELSE Success(entry, sv.ret)

\* what the handler does with save_winner's outcome: an escaping exception
\* lands in except Exception
AfterSave(entry, sv) == IF sv.raised THEN Failure("save") ELSE Success(entry, sv.ret)

\* what the last operation was given and what it did (history)
NoLast == [op |-> "init", exclude_ids |-> <<>>, exclude_numbers |-> <<>>,
           logRead |-> "none", poolRead |-> "none", before |-> NoSheet,
           entry |-> NoEntry, selected |-> FALSE, error |-> "",
           caught |-> FALSE, saved |-> FALSE,
           again |-> FALSE, first |-> NoSheet, eligible |-> <<>>]

(* ------------------------------ the inputs ----------------------------- *)
\* sequences of at most n different members of S
SeqsUpTo(S, n) ==
  UNION {{q \in [1..m -> S] : \A i, j \in 1..m : i # j => q[i] # q[j]} : m \in 0..n}
Min(a, b) == IF a < b THEN a ELSE b

\* a pool record as get_all_records returns it, lower-case or capitalised
\* header row
LowerRow(i, n, nm) ==
  [id |-> i, ID |-> None, number |-> n, Number |-> None,
   name |-> StrV(nm), Name |-> None, description |-> StrV(nm), Description |-> None]
UpperRow(i, n, nm) ==
  [id |-> None, ID |-> i, number |-> None, Number |-> n,
   name |-> None, Name |-> StrV(nm), description |-> None, Description |-> StrV(nm)]

LowerRows == {LowerRow(IntV(1), IntV(7), <<"a">>),
              LowerRow(IntV(0), IntV(0), <<"n">>),
              LowerRow(StrV(<<" ", "a">>), Empty, <<"e">>)}
UpperRows == {UpperRow(IntV(1), IntV(7), <<"o">>)}

Pools == SeqsUpTo(LowerRows, MaxPool) \cup SeqsUpTo(UpperRows, 1)

\* winners sheets the service may find when it starts: none, header only,
\* one earlier row (a number of the pool under another id, zeros, an empty
\* timestamp cell), or a row without timestamp above a stamped one
InitLogRows ==
  {Cells(TsStr(0), IntV(9), IntV(7), StrV(<<"o">>), StrV(<<"o">>)),
   Cells(TsStr(0), IntV(8), IntV(0), StrV(<<"b">>), StrV(<<"b">>)),
   Cells(Empty, IntV(5), IntV(5), StrV(<<"e">>), StrV(<<"e">>))}

InitSheets ==
  {NoSheet}
  \cup {[exists |-> TRUE, header |-> h, rows |-> <<>>] : h \in {HeaderLower, HeaderUpper}}
  \cup {[exists |-> TRUE, header |-> HeaderLower, rows |-> <<r>>] : r \in InitLogRows}
  \cup {[exists |-> TRUE, header |-> HeaderUpper, rows |-> <<r>>] :
          r \in {Cells(TsStr(0), IntV(9), IntV(7), StrV(<<"o">>), StrV(<<"o">>))}}
  \cup {[exists |-> TRUE, header |-> HeaderLower,
         rows |-> <<Cells(Empty, IntV(5), IntV(5), StrV(<<"e">>), StrV(<<"e">>)),
                    Cells(TsStr(0), IntV(9), IntV(7), StrV(<<"o">>), StrV(<<"o">>))>>]}

\* raw values of the exclude_ids and exclude_numbers query parameters, in pairs
ExcludeParams == {<< <<>>, <<>> >>,
                  << <<"1">>, <<>> >>,
                  << <<" ", "0", ",", ",", "a", " ">>, <<"7", " ">> >>}

\* entries handed to save_winner directly
SaveEntries == {DrawResult(r, <<r>>, <<r>>) : r \in LowerRows}

\* the entry a response returned, if it returned one from the pool
Returned(l, r) ==
  IF l.op \in {"luckydex", "draw"} /\ l.selected /\ ~l.entry.mock
  THEN {[id |-> l.entry.id, number |-> l.entry.number]} ELSE {}

(* --------------------------- requests in flight ------------------------ *)
\* The worker processes that serve requests at the same time, each running
\* one call: a /luckydex request or a direct save_winner call.
Procs == {1, 2}

\* a call's position (pc) and locals, plus what it did so far (history):
\*   winners   what get_winners returned        entry    the entry selected
\*   row       next_row as computed             ret      save_winner's result
\*   status    the HTTP status answered         persist  times save_winner ran
\*   early     get_winners ran before any call wrote a row
\*   missing   the lookup found no winners sheet
\*   wrote     worksheet.update ran
NoCall == [kind |-> "none", pc |-> "idle", winners |-> <<>>, entry |-> NoEntry,
           selected |-> FALSE, row |-> 0, ret |-> FALSE, status |-> 0,
           persist |-> 0, early |-> FALSE, missing |-> FALSE, wrote |-> FALSE]

NoCalls == [p \in Procs |-> NoCall]

(* -------------------------------- Init --------------------------------- *)
\* Without credentials there is no store behind the client.  With them, the
\* service starts on any pool with a fresh winners sheet, or on the reference
\* pool with any of the winners sheets.
FreshSheets == {NoSheet, [exists |-> TRUE, header |-> HeaderLower, rows |-> <<>>]}
ReferencePool == <<LowerRow(IntV(1), IntV(7), <<"a">>), LowerRow(IntV(0), IntV(0), <<"n">>)>>

Init ==
  /\ client \in BOOLEAN
  /\ spreadsheet = FALSE
  /\ pool \in (IF client THEN Pools ELSE {<<>>})
  /\ sheet \in (IF ~client THEN {NoSheet}
                ELSE IF pool = ReferencePool THEN InitSheets ELSE FreshSheets)
  /\ now = 1
  /\ last = NoLast
  /\ resp = NoResp
  /\ drawn = {}
  /\ calls = NoCalls

(* ------------------------------- actions ------------------------------- *)
\* GET /luckydex: parse the exclusions, get_unique_random_entry, save_winner
\* (best effort), build the response.
\*   lf:     get_winners' try block raises (opening the spreadsheet while it
\*           is not cached, looking the winners sheet up, or reading it)
\*   sf:     where save_winner's try block raises
\*   k:      the index random.choice picks;  t: the clock at write time
LuckydexMock ==
  /\ ~client
  /\ \E k \in 1..Len(mock_data) :
       /\ resp' = Success(MockEntry(k), save_winner(client, sheet, MockEntry(k), "none", now).ret)
       /\ last' = [NoLast EXCEPT !.op = "luckydex", !.entry = MockEntry(k),
                                 !.selected = TRUE, !.before = sheet]
  /\ drawn' = drawn \cup Returned(last, resp)
  /\ UNCHANGED <<client, spreadsheet, pool, sheet, now, calls>>

\* the request as the history variable records it
Request(exclude_ids, exclude_numbers, lf) ==
  [NoLast EXCEPT !.op = "luckydex", !.exclude_ids = exclude_ids,
                 !.exclude_numbers = exclude_numbers,
                 !.logRead = IF lf THEN "failed"
                             ELSE IF sheet.exists THEN "ok" ELSE "missing",
                 !.before = sheet]

\* lines 106-119 of app.py, once an entry is chosen
Persist(req, entry, sv, t) ==
  /\ Len(sv.sheet.rows) <= MaxLog
  /\ resp' = AfterSave(entry, sv)
  /\ last' = [req EXCEPT !.entry = entry, !.selected = TRUE, !.poolRead = "ok",
                         !.caught = sv.caught, !.saved = sv.ret]
  /\ sheet' = sv.sheet
  /\ now' = t

\* the spreadsheet cannot be opened: get_winners swallowed that, the
\* self._get_spreadsheet() before the pool read raises
DrawOpenFails(req, lf) ==
  /\ ~spreadsheet /\ lf
  /\ resp' = Failure("open")
  /\ last' = [req EXCEPT !.poolRead = "failed", !.error = "exception"]
  /\ UNCHANGED <<spreadsheet, sheet, now>>

\* looking the pool sheet up or reading it raises
DrawPoolFails(req) ==
  /\ resp' = Failure("read")
  /\ last' = [req EXCEPT !.poolRead = "failed", !.error = "exception"]
  /\ spreadsheet' = TRUE
  /\ sheet' = after_get_winners(sheet)
  /\ UNCHANGED now

\* the ValueError of an empty pool or of an empty eligible list
DrawError(eligible) == IF pool = <<>> THEN "Spreadsheet is empty"
                       ELSE "No eligible entries remaining"

DrawConflict(req, eligible) ==
  /\ pool = <<>> \/ eligible = <<>>
  /\ resp' = Conflict(DrawError(eligible))
  /\ last' = [req EXCEPT !.poolRead = "ok", !.error = DrawError(eligible)]
  /\ spreadsheet' = TRUE
  /\ sheet' = after_get_winners(sheet)
  /\ UNCHANGED now

\* random.choice(eligible), then save_winner
DrawSelect(req, eligible) ==
  /\ pool # <<>>
  /\ \E k \in 1..Len(eligible),
        sf \in (IF sheet.exists THEN SaveFailures \ {"open", "append_row"}
                ELSE SaveFailures \ {"open"}),
        t \in now..Min(now + 1, MaxClock) :
       Persist(req, DrawResult(eligible[k], pool, eligible),
               save_winner(client, after_get_winners(sheet),
                           DrawResult(eligible[k], pool, eligible), sf, t),
               t)
  /\ spreadsheet' = TRUE

\* get_unique_random_entry from the pool read on, then the handler's tail
Draw(req, eligible, lf) ==
  \/ DrawOpenFails(req, lf)
  \/ DrawPoolFails(req)
  \/ DrawConflict(req, eligible)
  \/ DrawSelect(req, eligible)

Filter(exclude_ids, exclude_numbers, winners, lf) ==
  Draw(Request(exclude_ids, exclude_numbers, lf),
       Eligible(pool, prior_ids(winners, exclude_ids),
                prior_numbers(winners, exclude_numbers)),
       lf)

Luckydex ==
  /\ client
  /\ drawn' = drawn \cup Returned(last, resp)
  /\ UNCHANGED <<client, pool, calls>>
  /\ \E q \in ExcludeParams, lf \in BOOLEAN :
       Filter(ParseList(q[1]), ParseList(q[2]), get_winners(client, sheet, lf), lf)

\* save_winner(entry) called directly
Saved(entry, sv) ==
  /\ Len(sv.sheet.rows) <= MaxLog
  /\ sheet' = sv.sheet
  /\ last' = [NoLast EXCEPT
                !.op = "save_winner", !.before = sheet, !.entry = entry,
                !.caught = sv.caught, !.saved = sv.ret,
                !.again = (last.op = "save_winner" /\ ~last.caught
                           /\ last.entry = entry),
                !.first = IF last.op = "save_winner" /\ ~last.caught
                             /\ last.entry = entry
                          THEN last.before ELSE NoSheet]

SaveWinner ==
  \E entry \in SaveEntries,
     sf \in (IF ~client THEN {"none"}
             ELSE (SaveFailures \ (IF spreadsheet THEN {"open"} ELSE {}))
                  \ (IF sheet.exists THEN {"append_row"} ELSE {})),
     t \in (IF client THEN now..Min(now + 1, MaxClock) ELSE {now}) :
    /\ Saved(entry, save_winner(client, sheet, entry, sf, t))
    /\ spreadsheet' = (spreadsheet \/ (client /\ sf # "open"))
    /\ now' = t
    /\ resp' = NoResp
    /\ drawn' = drawn \cup Returned(last, resp)
    /\ UNCHANGED <<client, pool, calls>>

\* GET /winners: get_winners, which never raises
Winners ==
  \E lf \in (IF client THEN BOOLEAN ELSE {FALSE}),
     opened \in (IF client /\ ~spreadsheet THEN BOOLEAN ELSE {spreadsheet}) :
    /\ (~opened /\ client) => lf
    /\ resp' = [NoResp EXCEPT !.status = 200, !.success = TRUE,
                   !.winners = get_winners(client, sheet, lf)]
    /\ last' = [NoLast EXCEPT !.op = "winners", !.before = sheet,
                   !.logRead = IF ~client THEN "none"
                               ELSE IF lf THEN "failed"
                               ELSE IF sheet.exists THEN "ok" ELSE "missing"]
    /\ spreadsheet' = opened
    /\ sheet' = (IF client /\ opened THEN after_get_winners(sheet) ELSE sheet)
    /\ drawn' = drawn \cup Returned(last, resp)
    /\ UNCHANGED <<client, pool, now, calls>>

(* ------------------- the example scenario of the spec ------------------ *)
\* five entries with the numbers 777, 888, 333, 999, 111
ScenarioPool ==
  <<LowerRow(IntV(1), IntV(777), <<"a">>), LowerRow(IntV(2), IntV(888), <<"b">>),
    LowerRow(IntV(3), IntV(333), <<"e">>), LowerRow(IntV(4), IntV(999), <<"n">>),
    LowerRow(IntV(5), IntV(111), <<"o">>)>>

RECURSIVE JoinNumbers(_)
JoinNumbers(ds) ==
  IF ds = {} THEN <<>>
  ELSE LET d == CHOOSE x \in ds : TRUE
       IN IF ds = {d} THEN PyStr(d.number)
          ELSE PyStr(d.number) \o <<",">> \o JoinNumbers(ds \ {d})

\* get_unique_random_entry called without the handler: nothing is recorded
DrawOnly(req, eligible) ==
  \/ /\ eligible = <<>>
     /\ last' = [req EXCEPT !.op = "draw", !.poolRead = "ok",
                            !.error = DrawError(eligible), !.eligible = eligible]
  \/ \E k \in 1..Len(eligible) :
       last' = [req EXCEPT !.op = "draw", !.poolRead = "ok", !.selected = TRUE,
                           !.entry = DrawResult(eligible[k], pool, eligible),
                           !.eligible = eligible]

FilterOnly(exclude_numbers, winners, lf) ==
  DrawOnly(Request(<<>>, exclude_numbers, lf),
           Eligible(pool, prior_ids(winners, <<>>),
                    prior_numbers(winners, exclude_numbers)))

\* a draw that passes the numbers drawn so far in exclude_numbers
ScenarioDraw ==
  /\ drawn' = drawn \cup Returned(last, resp)
  /\ \E lf \in BOOLEAN :
       FilterOnly(ParseList(JoinNumbers(drawn \cup Returned(last, resp))),
                  get_winners(client, sheet, lf), lf)
  /\ resp' = NoResp
  /\ spreadsheet' = TRUE
  /\ UNCHANGED <<client, pool, sheet, now, calls>>

InitScenario ==
  /\ client = TRUE
  /\ spreadsheet = FALSE
  /\ pool = ScenarioPool
  /\ sheet \in FreshSheets
  /\ now = 1
  /\ last = NoLast
  /\ resp = NoResp
  /\ drawn = {}
  /\ calls = NoCalls

NextScenario == ScenarioDraw

SpecScenario == InitScenario /\ [][NextScenario]_vars

Next == LuckydexMock \/ Luckydex \/ SaveWinner \/ Winners

Spec == Init /\ [][Next]_vars

(* ------------------------- concurrent requests ------------------------- *)
\* Each step below is one call to the Sheets API made by one process; steps
\* of different processes interleave freely.
ConcPool == <<LowerRow(IntV(1), IntV(7), <<"a">>), LowerRow(IntV(2), IntV(8), <<"b">>)>>
ConcEntries == {DrawResult(ConcPool[i], ConcPool, ConcPool) : i \in 1..Len(ConcPool)}

\* the header values when append_row lands them below rows already present
HeaderCells ==
  Cells(StrV(<<"t", "i", "m", "e", "s", "t", "a", "m", "p">>), StrV(<<"i", "d">>),
        StrV(<<"n", "u", "m", "b", "e", "r">>), StrV(<<"n", "a", "m", "e">>),
        StrV(<<"d", "e", "s", "c", "r", "i", "p", "t", "i", "o", "n">>))

\* worksheet.append_row(header): the values go below the last row that holds
\* data, row 1 on a sheet without any
append_row(sh) ==
  IF sh.rows = <<>> THEN [sh EXCEPT !.header = HeaderLower]
  ELSE [sh EXCEPT !.rows = @ \o <<HeaderCells>>]

\* process p moves on; nothing but the winners sheet is shared
Step(p, c) ==
  /\ calls' = [calls EXCEPT ![p] = c]
  /\ UNCHANGED <<client, spreadsheet, pool, now, last, resp, drawn>>

\* save_winner returns; the handler builds its response
Finish(p, c, sv) ==
  Step(p, [c EXCEPT !.pc = "done", !.ret = sv.ret,
                    !.status = IF c.kind = "luckydex"
                               THEN AfterSave(c.entry, sv).status ELSE 0])

\* a request arrives: GET /luckydex, or save_winner(entry) called directly
StartCall(p) ==
  /\ calls[p].pc = "idle"
  /\ \/ Step(p, [calls[p] EXCEPT !.kind = "luckydex", !.pc = "get_winners"])
     \/ \E e \in ConcEntries :
          Step(p, [calls[p] EXCEPT !.kind = "save", !.pc = "lookup", !.entry = e,
                                   !.persist = 1])
  /\ UNCHANGED sheet

\* winners = self.get_winners(...)
CallGetWinners(p) ==
  /\ calls[p].pc = "get_winners"
  /\ Step(p, [calls[p] EXCEPT !.pc = "select",
                              !.winners = get_winners(client, sheet, FALSE),
                              !.early = \A q \in Procs : ~calls[q].wrote])
  /\ sheet' = after_get_winners(sheet)

\* the pool read raises: except Exception, 500
CallPoolFails(p, c) == Step(p, [c EXCEPT !.pc = "done", !.status = Failure("read").status])

\* empty pool or nothing eligible: ValueError, 409
CallConflict(p, c, eligible) ==
  /\ pool = <<>> \/ eligible = <<>>
  /\ Step(p, [c EXCEPT !.pc = "done", !.status = Conflict(DrawError(eligible)).status])

\* random.choice(eligible); the handler then calls save_winner
CallChoose(p, c, eligible) ==
  /\ pool # <<>>
  /\ \E k \in 1..Len(eligible) :
       Step(p, [c EXCEPT !.pc = "lookup", !.selected = TRUE,
                         !.entry = DrawResult(eligible[k], pool, eligible),
                         !.persist = @ + 1])

CallFilter(p, c, eligible) ==
  \/ CallPoolFails(p, c)
  \/ CallConflict(p, c, eligible)
  \/ CallChoose(p, c, eligible)

\* the rest of get_unique_random_entry: prior sets, pool read, filter, choice
CallSelect(p) ==
  /\ calls[p].pc = "select"
  /\ CallFilter(p, [calls[p] EXCEPT !.winners = <<>>],
                Eligible(pool, prior_ids(calls[p].winners, <<>>),
                         prior_numbers(calls[p].winners, <<>>)))
  /\ UNCHANGED sheet

\* spreadsheet.worksheet(winners_name)
CallLookup(p) ==
  /\ calls[p].pc = "lookup"
  /\ Step(p, [calls[p] EXCEPT !.pc = IF sheet.exists THEN "get_all_records"
                                     ELSE "add_worksheet",
                              !.missing = ~sheet.exists])
  /\ UNCHANGED sheet

\* spreadsheet.add_worksheet(title=winners_name, ...): the API refuses a
\* second sheet of the same title, and the exception ends in the except clause
CallAddWorksheet(p) ==
  /\ calls[p].pc = "add_worksheet"
  /\ IF sheet.exists
     THEN Finish(p, calls[p], except_clause(sheet)) /\ UNCHANGED sheet
     ELSE /\ sheet' = [exists |-> TRUE, header |-> NoHeader, rows |-> <<>>]
          /\ Step(p, [calls[p] EXCEPT !.pc = "append_row"])

\* worksheet.append_row(['timestamp', 'id', 'number', 'name', 'description'])
CallAppendRow(p) ==
  /\ calls[p].pc = "append_row"
  /\ sheet' = append_row(sheet)
  /\ Step(p, [calls[p] EXCEPT !.pc = "get_all_records"])

\* existing_winners = worksheet.get_all_records() and the duplicate guard
CallGetAllRecords(p) ==
  /\ calls[p].pc = "get_all_records"
  /\ IF IsDuplicate(calls[p].entry, LogRecords(sheet))
     THEN Finish(p, calls[p], Returns(sheet, TRUE))
     ELSE Step(p, [calls[p] EXCEPT !.pc = "col_values"])
  /\ UNCHANGED sheet

\* col_a_values = worksheet.col_values(1) and next_row
CallColValues(p) ==
  /\ calls[p].pc = "col_values"
  /\ Step(p, [calls[p] EXCEPT !.pc = "update", !.row = next_row(sheet)])
  /\ UNCHANGED sheet

\* worksheet.update(range_name, [row_data]); return True
CallUpdate(p) ==
  /\ calls[p].pc = "update"
  /\ sheet' = [sheet EXCEPT !.rows = Update(@, calls[p].row, row_data(calls[p].entry, now))]
  /\ Finish(p, [calls[p] EXCEPT !.wrote = TRUE], Returns(sheet, TRUE))

CallStep(p) ==
  \/ StartCall(p)
  \/ CallGetWinners(p)
  \/ CallSelect(p)
  \/ CallLookup(p)
  \/ CallAddWorksheet(p)
  \/ CallAppendRow(p)
  \/ CallGetAllRecords(p)
  \/ CallColValues(p)
  \/ CallUpdate(p)

InitConc ==
  /\ client = TRUE
  /\ spreadsheet = TRUE
  /\ pool \in {ConcPool, <<>>}
  /\ sheet \in FreshSheets
  /\ now = 1
  /\ last = NoLast
  /\ resp = NoResp
  /\ drawn = {}
  /\ calls = NoCalls

NextConc == \E p \in Procs : CallStep(p)

SpecConc == InitConc /\ [][NextConc]_vars

(* ----------------------- logs longer than the window ------------------- *)
\* a log of DupWindow + 1 rows: the row at position k holds id 1 and number
\* 7, every other row id 9 and number 9
LongRows(k) ==
  [i \in 1..(DupWindow + 1) |->
     IF i = k THEN Cells(TsStr(0), IntV(1), IntV(7), StrV(<<"a">>), StrV(<<"a">>))
     ELSE Cells(TsStr(0), IntV(9), IntV(9), StrV(<<"o">>), StrV(<<"o">>))]

\* the row stands before the scanned suffix, first in it, or last in it
LongLogs ==
  {[exists |-> TRUE, header |-> h, rows |-> LongRows(k)] :
     h \in {HeaderLower, HeaderUpper}, k \in {1, 2, DupWindow + 1}}

WindowSaved(entry, sv) ==
  /\ Len(sv.sheet.rows) <= DupWindow + 1 + MaxLog
  /\ sheet' = sv.sheet
  /\ last' = [NoLast EXCEPT !.op = "save_winner", !.before = sheet, !.entry = entry,
                            !.caught = sv.caught, !.saved = sv.ret]
  /\ resp' = NoResp
  /\ UNCHANGED <<client, spreadsheet, pool, now, drawn, calls>>

\* save_winner(entry) called directly on a long log
WindowSave ==
  \E entry \in SaveEntries, sf \in {"none", "read", "write"} :
     WindowSaved(entry, save_winner(client, sheet, entry, sf, now))

InitWindow ==
  /\ client = TRUE
  /\ spreadsheet = TRUE
  /\ pool = ReferencePool
  /\ sheet \in LongLogs
  /\ now = 1
  /\ last = NoLast
  /\ resp = NoResp
  /\ drawn = {}
  /\ calls = NoCalls

NextWindow == WindowSave

SpecWindow == InitWindow /\ [][NextWindow]_vars

(* ------------------- the filter and the choice alone ------------------- *)
\* a pool row of a sheet that has both an id and an ID column: the id cell
\* is empty, the ID cell holds the value
MixedRow(i, n, nm) ==
  [id |-> Empty, ID |-> i, number |-> n, Number |-> None,
   name |-> StrV(nm), Name |-> None, description |-> StrV(nm), Description |-> None]

FilterRows == LowerRows \cup UpperRows \cup {MixedRow(IntV(1), IntV(8), <<"b">>)}

FilterPools == SeqsUpTo(FilterRows, MaxFilterPool)

\* get_unique_random_entry(exclude_ids, exclude_numbers) called directly
PureDraw ==
  /\ \E q \in ExcludeParams :
       DrawOnly(Request(ParseList(q[1]), ParseList(q[2]), FALSE),
                Eligible(pool,
                         prior_ids(get_winners(client, sheet, FALSE), ParseList(q[1])),
                         prior_numbers(get_winners(client, sheet, FALSE), ParseList(q[2]))))
  /\ sheet' = after_get_winners(sheet)
  /\ UNCHANGED <<client, spreadsheet, pool, now, resp, drawn, calls>>

InitFilter ==
  /\ client = TRUE
  /\ spreadsheet = TRUE
  /\ pool \in FilterPools
  /\ sheet \in InitSheets
  /\ now = 1
  /\ last = NoLast
  /\ resp = NoResp
  /\ drawn = {}
  /\ calls = NoCalls

NextFilter == PureDraw

SpecFilter == InitFilter /\ [][NextFilter]_vars

(* ------------------------- vocabulary of the claims -------------------- *)
\* the normalized form of a value: its string form, trimmed
Norm(v) == Strip(PyStr(v))
\* a value is there when its key is present and its string form is not empty
HasValue(v) == v.k # "none" /\ Norm(v) # <<>>
SameValue(a, b) == HasValue(a) /\ HasValue(b) /\ Norm(a) = Norm(b)
\* a logical field under either header casing
Field(lower, upper) == IF HasValue(lower) THEN lower ELSE upper

\* the winners log as it stood when the last operation began
LogBefore == LogRecords(last.before)

ExcludedByLog(id, number) ==
  \E i \in 1..Len(LogBefore) :
     \/ SameValue(id, Field(LogBefore[i].id, LogBefore[i].ID))
     \/ SameValue(number, Field(LogBefore[i].number, LogBefore[i].Number))

ExcludedBySession(id, number) ==
  \/ \E i \in 1..Len(last.exclude_ids) : SameValue(id, last.exclude_ids[i])
  \/ \E i \in 1..Len(last.exclude_numbers) : SameValue(number, last.exclude_numbers[i])

Excluded(id, number) == ExcludedByLog(id, number) \/ ExcludedBySession(id, number)

PoolExhausted ==
  /\ pool # <<>>
  /\ \A i \in 1..Len(pool) :
       Excluded(Field(pool[i].id, pool[i].ID), Field(pool[i].number, pool[i].Number))

\* the last operation was a /luckydex request against a configured store
IsDraw == last.op = "luckydex" /\ client
\* save_winner ran in the last operation
RecordRan == client /\ (last.op = "save_winner" \/ (last.op = "luckydex" /\ last.selected))

(* -------------------------------- C1 ----------------------------------- *)
\* C1: a successful draw whose log read succeeded never returns an entry
\* whose normalized id or normalized number equals that of a log row or of an
\* exclusion token, zero values included.
C1_NoExcludedDraw ==
  (IsDraw /\ resp.status = 200 /\ last.logRead # "failed")
    => ~Excluded(resp.id, resp.number)

(* -------------------------------- C2 ----------------------------------- *)
\* an earlier draw whose row stands in the winners log
Recorded(d) ==
  \E i \in 1..Len(last.before.rows) :
     last.before.rows[i].b = d.id /\ last.before.rows[i].c = d.number

\* C2: over a sequence of /luckydex requests on one pool and one log, a draw
\* never returns an id or a number that an earlier draw returned (stated for
\* the runs in which every earlier draw stands recorded in the log and this
\* draw read the log).
C2_NoRepeat ==
  (IsDraw /\ resp.status = 200 /\ last.logRead = "ok"
     /\ \A d \in drawn : Recorded(d))
    => \A d \in drawn : ~SameValue(resp.id, d.id) /\ ~SameValue(resp.number, d.number)

(* -------------------------------- C3 ----------------------------------- *)
\* C3: when the pool is not empty and every entry of it is excluded by the
\* log or by the session exclusions, the draw fails with 409 'No eligible
\* entries remaining' and selects nothing.
C3_Exhaustion ==
  (IsDraw /\ last.poolRead = "ok" /\ last.logRead # "failed" /\ PoolExhausted)
    => /\ resp.status = 409
       /\ last.error = "No eligible entries remaining"
       /\ ~last.selected

(* -------------------------------- C4 ----------------------------------- *)
\* the index of the last draw of the scenario
DrawNo == Cardinality(drawn) + 1

\* C4 as stated: draw 1 reports 5 eligible of 5, draw 2 reports 4 eligible,
\* draw 5 fails with NoEligibleEntries.
C4_FifthDrawFails ==
  (last.op = "draw")
    => /\ DrawNo = 1 => (last.selected /\ last.entry.eligible_entries = 5
                           /\ last.entry.total_entries = 5)
       /\ DrawNo = 2 => (last.selected /\ last.entry.eligible_entries = 4)
       /\ DrawNo = 5 => (~last.selected
                           /\ last.error = "No eligible entries remaining")

\* C4 amended: draws 1 to 5 succeed and report 5, 4, 3, 2, 1 eligible entries
\* of 5; the draw after them, the 6th, fails with NoEligibleEntries.
C4_SixthDrawFails ==
  (last.op = "draw")
    => /\ DrawNo <= 5 => (last.selected /\ last.entry.eligible_entries = 6 - DrawNo
                            /\ last.entry.total_entries = 5)
       /\ DrawNo = 6 => (~last.selected
                           /\ last.error = "No eligible entries remaining")

C4_Witness ==
  last.op = "draw" /\ DrawNo = 6 /\ ~last.selected
    /\ last.error = "No eligible entries remaining"

(* -------------------------------- C5 ----------------------------------- *)
\* C5: two save_winner calls in a row with the same entry, neither failing,
\* on a log whose rows all carry a timestamp, the first call writing a row:
\* together they append exactly one data row; the second call changes
\* nothing and returns true.
C5_OneRowForTwoCalls ==
  (last.op = "save_winner" /\ client /\ last.again /\ ~last.caught
     /\ (HasValue(last.entry.id) \/ HasValue(last.entry.number))
     /\ \A i \in 1..Len(last.first.rows) : last.first.rows[i].a # Empty
     /\ Resolved(last.first).rows # last.before.rows)
    => /\ Len(sheet.rows) = Len(last.first.rows) + 1
       /\ SubSeq(sheet.rows, 1, Len(last.first.rows)) = last.first.rows
       /\ sheet = last.before
       /\ last.saved

C7_PersistenceNeverFailsDraw ==
  (last.op = "luckydex" /\ last.selected)
    => /\ resp.status = 200 /\ resp.success
       /\ resp.id = last.entry.id /\ resp.number = last.entry.number
       /\ resp.name = last.entry.name
       /\ resp.description = last.entry.description
       /\ resp.winner_saved = last.saved
       /\ last.caught => ~resp.winner_saved

C7_Witness ==
  IsDraw /\ last.selected /\ last.caught /\ resp.status = 200
    /\ ~resp.winner_saved /\ resp.id = last.entry.id

(* -------------------------------- C8 ----------------------------------- *)
\* C8: a draw request whose read of the existing winners log failed ends in
\* an error and selects no entry.
C8_LogReadFatal ==
  (IsDraw /\ last.logRead = "failed" /\ last.before.exists)
    => resp.status # 200 /\ ~last.selected

(* -------------------------------- C9 ----------------------------------- *)
\* C9: 409 is answered only for a non-empty pool whose entries are all
\* excluded, never for an empty pool; every other failed draw answers 500.
C9_EmptyPoolIsNotExhaustion ==
  IsDraw => /\ resp.status = 409 => (pool # <<>> /\ last.poolRead = "ok")
            /\ resp.status \in {200, 409, 500}

(* -------------------------------- C10 ---------------------------------- *)
\* C10: every data row that was in the log before an operation is in the log
\* after it, at the same position with the same five values.
C10_AppendOnly ==
  \A i \in 1..Len(last.before.rows) :
     i <= Len(sheet.rows) /\ sheet.rows[i] = last.before.rows[i]

(* -------------------------------- C11 ---------------------------------- *)
\* the data rows of the log that hold the entry of call p
RowsFor(p) ==
  {i \in 1..Len(sheet.rows) :
     sheet.rows[i].b = calls[p].entry.id /\ sheet.rows[i].c = calls[p].entry.number}

\* two /luckydex requests that both read the log before any row was written
\* and both selected an entry
Racing(p, q) ==
  /\ p # q
  /\ calls[p].kind = "luckydex" /\ calls[q].kind = "luckydex"
  /\ calls[p].early /\ calls[q].early
  /\ calls[p].selected /\ calls[q].selected

SameEntry(p, q) ==
  /\ calls[p].entry.id = calls[q].entry.id
  /\ calls[p].entry.number = calls[q].entry.number

\* C11: two concurrent draw requests that both read the log before either
\* writes see the same eligible set; when both select the same entry and each
\* writes it on a row of its own, both answer 200 with winner_saved = true and
\* the log holds two rows for that entry.
C11_ConcurrentRace ==
  \A p, q \in Procs :
     Racing(p, q)
       => /\ calls[p].entry.eligible_entries = calls[q].entry.eligible_entries
          /\ calls[p].entry.total_entries = calls[q].entry.total_entries
          /\ (/\ calls[p].pc = "done" /\ calls[q].pc = "done"
              /\ SameEntry(p, q)
              /\ calls[p].wrote /\ calls[q].wrote
              /\ calls[p].row # calls[q].row)
               => /\ Cardinality(RowsFor(p)) = 2
                  /\ calls[p].status = 200 /\ calls[q].status = 200
                  /\ calls[p].ret /\ calls[q].ret

C11_Witness ==
  \E p, q \in Procs :
     /\ Racing(p, q) /\ SameEntry(p, q)
     /\ calls[p].pc = "done" /\ calls[q].pc = "done"
     /\ calls[p].status = 200 /\ calls[q].status = 200
     /\ calls[p].ret /\ calls[q].ret
     /\ sheet.header = HeaderLower
     /\ Cardinality(RowsFor(p)) = 2

(* -------------------------------- C12 ---------------------------------- *)
\* C12: without an initialized client every /luckydex request, wherever it
\* stands in a sequence of requests, answers 200 with success = true, the
\* fields id, number, name, description and total_entries, and mock_data =
\* true; never 409 or 500.
C12_MockAlwaysSucceeds ==
  (last.op = "luckydex" /\ ~client)
    => /\ resp.status = 200 /\ resp.success
       /\ resp.mock_data
       /\ \E i \in 1..Len(mock_data) :
            /\ resp.id = mock_data[i].id /\ resp.number = mock_data[i].number
            /\ resp.name = mock_data[i].name
            /\ resp.description = mock_data[i].description
       /\ resp.total_entries = Len(mock_data)

C12_Witness ==
  /\ ~client /\ last.op = "luckydex"
  /\ resp.status = 200 /\ resp.mock_data /\ resp.number = IntV(777)

(* -------------------------------- C13 ---------------------------------- *)
\* the timestamp of a listed record, under any of the header names
TsOf(r) == IF HasValue(r.timestamp) THEN r.timestamp
           ELSE IF HasValue(r.Timestamp) THEN r.Timestamp
           ELSE IF HasValue(r.time) THEN r.time ELSE Empty

CountIn(seq, x) == Cardinality({i \in 1..Len(seq) : seq[i] = x})

\* C13: a successful listing returns exactly the rows of the winners log,
\* latest timestamp first, every row without timestamp after every row that
\* has one.
C13_WinnersSortedDesc ==
  (last.op = "winners" /\ last.logRead = "ok")
    => /\ Len(resp.winners) = Len(sheet.rows)
       /\ \A i \in 1..Len(resp.winners) :
            CountIn(resp.winners, resp.winners[i])
              = CountIn(LogRecords(sheet), resp.winners[i])
       /\ \A i, j \in 1..Len(resp.winners) :
            i < j => /\ ~StrLess(PyStr(TsOf(resp.winners[i])), PyStr(TsOf(resp.winners[j])))
                     /\ TsOf(resp.winners[i]) = Empty => TsOf(resp.winners[j]) = Empty

C13_Witness ==
  /\ last.op = "winners" /\ last.logRead = "ok"
  /\ Len(resp.winners) = 2
  /\ resp.winners # LogRecords(sheet)
  /\ TsOf(resp.winners[1]) # Empty /\ TsOf(resp.winners[2]) = Empty

(* -------------------------------- C14 ---------------------------------- *)
\* the positions of a call inside save_winner
Persisting == {"lookup", "add_worksheet", "append_row", "get_all_records",
               "col_values", "update"}

\* C14: in a /luckydex request save_winner runs only after an entry was
\* selected and at most once; a request that ends in an error never ran it
\* and wrote nothing; a request that selected an entry ends with status 200.
C14_RequestStateMachine ==
  \A p \in Procs :
     calls[p].kind = "luckydex"
       => /\ calls[p].persist <= 1
          /\ calls[p].persist = 1 => calls[p].selected
          /\ calls[p].pc \in Persisting => (calls[p].selected /\ calls[p].persist = 1)
          /\ (calls[p].pc = "done" /\ calls[p].status # 200)
               => /\ calls[p].status \in {409, 500}
                  /\ ~calls[p].selected /\ calls[p].persist = 0
                  /\ ~calls[p].wrote /\ ~calls[p].missing
          /\ (calls[p].pc = "done" /\ calls[p].selected)
               => (calls[p].status = 200 /\ calls[p].persist = 1)

C14_Witness ==
  \E p, q \in Procs :
     /\ calls[p].kind = "luckydex" /\ calls[p].pc = "done"
     /\ calls[p].selected /\ calls[p].status = 200 /\ calls[p].wrote
     /\ calls[q].kind = "luckydex" /\ calls[q].pc = "done" /\ calls[q].status = 500

(* -------------------------------- C15 ---------------------------------- *)
\* a row of the scanned window holds the id or the number of the entry
GuardHit ==
  \E i \in 1..Len(LogBefore) :
     /\ i > Len(LogBefore) - DupWindow
     /\ \/ SameValue(last.entry.id, Field(LogBefore[i].id, LogBefore[i].ID))
        \/ SameValue(last.entry.number, Field(LogBefore[i].number, LogBefore[i].Number))

\* C15: when a row of the scanned window holds the entry's id or the entry's
\* number, save_winner returns true and leaves the log as it was.
C15_GuardHitIsNoOp ==
  (last.op = "save_winner" /\ client /\ ~last.caught /\ GuardHit)
    => (last.saved /\ sheet = last.before)

(* -------------------------------- C16 ---------------------------------- *)
\* row i of the log holds the id or the number of the entry
MatchAt(i) ==
  \/ SameValue(last.entry.id, Field(LogBefore[i].id, LogBefore[i].ID))
  \/ SameValue(last.entry.number, Field(LogBefore[i].number, LogBefore[i].Number))

\* row i lies in the scanned suffix
InWindow(i) == i > Len(LogBefore) - DupWindow

\* C16: only the last DupWindow rows are scanned: an entry whose matching
\* rows all lie before them is written as a new row; a match inside them
\* suppresses the write.
C16_WindowIsSuffix ==
  (last.op = "save_winner" /\ client /\ ~last.caught)
    => /\ (/\ \E i \in 1..Len(LogBefore) : MatchAt(i)
           /\ \A i \in 1..Len(LogBefore) : MatchAt(i) => ~InWindow(i))
            => /\ Len(sheet.rows) = Len(last.before.rows) + 1
               /\ sheet.rows[Len(sheet.rows)].b = last.entry.id
               /\ last.saved
       /\ (\E i \in 1..Len(LogBefore) : MatchAt(i) /\ InWindow(i))
            => (sheet = last.before /\ last.saved)

(* -------------------------------- C17 ---------------------------------- *)
\* the sheet row of the last populated cell of the timestamp column, the
\* header cell being row 1 (0 when the column is empty)
LastPopulated(sh) ==
  IF \E i \in 1..Len(sh.rows) : sh.rows[i].a # Empty
  THEN 1 + CHOOSE i \in 1..Len(sh.rows) :
             sh.rows[i].a # Empty /\ \A j \in 1..Len(sh.rows) : j > i => sh.rows[j].a = Empty
  ELSE IF sh.header.a # "" THEN 1 ELSE 0

Max(a, b) == IF a > b THEN a ELSE b

\* save_winner wrote a row in the last operation
WroteRow == RecordRan /\ ~last.caught /\ last.saved /\ sheet.rows # last.before.rows

\* the log is absent, or has its header and a timestamp in every row
Gapless(sh) ==
  ~sh.exists \/ (sh.header.a # "" /\ \A i \in 1..Len(sh.rows) : sh.rows[i].a # Empty)

\* C17: the row save_winner writes is sheet row (last populated row of the
\* timestamp column) + 1 and never a row before 2, all other rows staying as
\* they were; on a log that is absent, header-only or gapless the row goes
\* right below the last one, so the log stays gapless under its header and
\* keeps the order of the calls.
C17_AppendPosition ==
  WroteRow
    => /\ \E n \in 2..(Len(sheet.rows) + 1) :
            /\ n = Max(2, LastPopulated(last.before) + 1)
            /\ sheet.rows[n - 1].b = last.entry.id
            /\ sheet.rows[n - 1].c = last.entry.number
            /\ sheet.rows[n - 1].a # Empty
            /\ \A i \in 1..Len(last.before.rows) :
                 i # n - 1 => sheet.rows[i] = last.before.rows[i]
       /\ Gapless(last.before)
            => /\ Len(sheet.rows) = Len(last.before.rows) + 1
               /\ SubSeq(sheet.rows, 1, Len(last.before.rows)) = last.before.rows
               /\ sheet.header = Resolved(last.before).header
               /\ Gapless(sheet) /\ sheet.exists

C17_Witness ==
  /\ WroteRow /\ Gapless(last.before)
  /\ Len(last.before.rows) = 1 /\ Len(sheet.rows) = 2
  /\ sheet.rows[2].b = last.entry.id
  /\ sheet.header = HeaderLower

(* -------------------------------- C18 ---------------------------------- *)
\* C18: two save_winner calls that both found the winners sheet missing both
\* return true, and the sheet ends up created once, with the header in row 1
\* and no second header row.
C18_CreationRaceIsSafe ==
  \A p, q \in Procs :
     (/\ p # q
      /\ calls[p].missing /\ calls[q].missing
      /\ calls[p].pc = "done" /\ calls[q].pc = "done")
       => /\ calls[p].ret /\ calls[q].ret
          /\ sheet.exists /\ sheet.header = HeaderLower
          /\ \A i \in 1..Len(sheet.rows) : sheet.rows[i] # HeaderCells

(* -------------------------------- C19 ---------------------------------- *)
\* C19: once all calls have finished, the log holds a row with the id and
\* the number of every entry whose save_winner call returned true, the
\* entries of the calls being pairwise different.
C19_NoLostWrite ==
  (/\ \A p \in Procs : calls[p].pc = "done"
   /\ \A p, q \in Procs : p # q => (/\ calls[p].entry.id # calls[q].entry.id
                                    /\ calls[p].entry.number # calls[q].entry.number))
    => \A p \in Procs : (calls[p].persist = 1 /\ calls[p].ret) => RowsFor(p) # {}

(* -------------------------------- C20 ---------------------------------- *)
\* C20: get_winners never creates or changes the winners sheet: a listing,
\* and a draw that ends before save_winner, leave the sheet as it was; a
\* listing of a missing log returns the empty list and the log is still
\* missing afterwards.
C20_ReadNeverWrites ==
  /\ (last.op = "winners" \/ (last.op = "luckydex" /\ ~last.selected))
       => sheet = last.before
  /\ (last.op = "winners" /\ ~last.before.exists)
       => (resp.winners = <<>> /\ ~sheet.exists)

C20_Witness ==
  /\ last.op = "winners" /\ client /\ last.logRead = "missing"
  /\ resp.status = 200 /\ resp.winners = <<>>
  /\ ~last.before.exists /\ ~sheet.exists

(* -------------------------------- C21 ---------------------------------- *)
\* the exclusion sets the filter of the last draw was given
GivenIds == prior_ids(get_winners(client, last.before, FALSE), last.exclude_ids)
GivenNumbers == prior_numbers(get_winners(client, last.before, FALSE), last.exclude_numbers)

\* a pool row stays in when neither of its logical fields, normalized, is in
\* the exclusion sets; a field without a value never matches
StaysIn(r) ==
  /\ ~(HasValue(Field(r.id, r.ID)) /\ Norm(Field(r.id, r.ID)) \in GivenIds)
  /\ ~(HasValue(Field(r.number, r.Number))
       /\ Norm(Field(r.number, r.Number)) \in GivenNumbers)

\* C21: on a successful draw the eligible list is exactly the pool rows whose
\* normalized id is not in the excluded ids and whose normalized number is not
\* in the excluded numbers, total_entries is the number of pool rows and
\* eligible_entries is the number of pool rows satisfying that condition.
C21_FilterCompleteCounts ==
  (last.op = "draw" /\ last.selected) =>
     /\ last.eligible = SelectSeq(pool, StaysIn)
     /\ last.entry.total_entries = Len(pool)
     /\ last.entry.eligible_entries = Len(SelectSeq(pool, StaysIn))

(* -------------------------------- C22 ---------------------------------- *)
\* e is a subsequence of p: its elements are elements of p taken at strictly
\* increasing positions
IsSubsequence(e, p) ==
  \E f \in [1..Len(e) -> 1..Len(p)] :
     /\ \A i \in 1..Len(e) : e[i] = p[f[i]]
     /\ \A i, j \in 1..Len(e) : i < j => f[i] < f[j]

\* C22: the eligible sequence the filter computes is a subsequence of the
\* pool, so any two retained entries keep the relative order they have in the
\* pool.
C22_OrderPreserved ==
  (last.op = "draw" /\ last.poolRead = "ok") => IsSubsequence(last.eligible, pool)

\* the middle row of three was filtered out and the two different rows left
\* stand in pool order
C22_Witness ==
  /\ last.op = "draw"
  /\ Len(pool) = 3
  /\ pool[1] # pool[3]
  /\ last.eligible = <<pool[1], pool[3]>>
  /\ C22_OrderPreserved

(* -------------------------------- C23 ---------------------------------- *)
\* the values a row holds for a field, under either header casing ('' when
\* it has neither key)
Held(lower, upper) ==
  IF lower.k = "none" /\ upper.k = "none" THEN {Empty}
  ELSE {v \in {lower, upper} : v.k # "none"}

\* the returned entry carries the id, number, name and description of row m
IsEntryOf(entry, m) ==
  /\ entry.id \in Held(m.id, m.ID)
  /\ entry.number \in Held(m.number, m.Number)
  /\ entry.name \in Held(m.name, m.Name)
  /\ entry.description \in Held(m.description, m.Description)

\* the eligible list of a draw with exclusion parameters q in the present state
EligibleNow(q) ==
  Eligible(pool, prior_ids(get_winners(client, sheet, FALSE), ParseList(q[1])),
           prior_numbers(get_winners(client, sheet, FALSE), ParseList(q[2])))

\* the step of PureDraw for request req and eligible list e, returning the
\* entry of row m
DrawReturns(req, e, m) ==
  /\ DrawOnly(req, e)
  /\ sheet' = after_get_winners(sheet)
  /\ UNCHANGED <<client, spreadsheet, pool, now, resp, drawn, calls>>
  /\ last'.selected
  /\ IsEntryOf(last'.entry, m)

Looked(lower, upper) ==
  IF HasValue(Field(lower, upper)) THEN {Norm(Field(lower, upper))} ELSE {}

\* the comparison value the code derives from the value v it picked
Used(v) == IF NormOrNone(v).k # "none" THEN {NormOrNone(v).s} ELSE {}

\* C24: for the id and the number of every pool row and of every log row the
\* value the draw compares is the first non-empty one of the lowercase key
\* then the capitalized key, and a pool row whose value so found is excluded
\* is not eligible (a row with an empty id cell and a valued ID cell included).
\* Log cells holding the integer 0 are left to C1, which is about them.
C24_HeaderCasingLookup ==
  (last.op = "draw" /\ last.poolRead = "ok") =>
     /\ \A i \in 1..Len(pool) :
          /\ Used(candidate_id(pool[i])) = Looked(pool[i].id, pool[i].ID)
          /\ Used(candidate_number(pool[i])) = Looked(pool[i].number, pool[i].Number)
          /\ (Looked(pool[i].id, pool[i].ID) \cap GivenIds # {}
              \/ Looked(pool[i].number, pool[i].Number) \cap GivenNumbers # {})
             => \A k \in 1..Len(last.eligible) : last.eligible[k] # pool[i]
     /\ \A j \in 1..Len(LogBefore) :
          /\ LogBefore[j].id # IntV(0) =>
                Used(PyOr(LogBefore[j].id, LogBefore[j].ID))
                  = Looked(LogBefore[j].id, LogBefore[j].ID)
          /\ LogBefore[j].number # IntV(0) =>
                Used(PyOr(LogBefore[j].number, LogBefore[j].Number))
                  = Looked(LogBefore[j].number, LogBefore[j].Number)

====
